---- MODULE Spec2Model ----
(***************************************************************************)
(* Model of the import orchestration core of immich_takeout:               *)
(*   shared/import_processor.py  ImportProcessor (process_google_photos_   *)
(*                               zips, process_folder)                     *)
(*   shared/immich_go_runner.py  ImmichGoRunner (_run_with_retry,          *)
(*                               _tail_log_file, create_metadata_callback) *)
(*   shared/import_metadata.py   ImportMetadata (save, update_status)      *)
(*   shared/takeout_utils.py     the reconciliation helpers                *)
(*                                                                         *)
(* One job is driven by one control thread (pc); within an attempt one     *)
(* tail worker reads the log the external tool appends to. A worker whose  *)
(* join timed out goes on beside the control thread (late).                *)
(***************************************************************************)
EXTENDS Integers, Sequences, FiniteSets, TLC

\* ------------------------------------------------------------------ bounds
\* Largest retry ceiling (ImmichGoRunner.max_retries) the model draws.
MaxRetries == 2
\* Largest number of log lines the external tool writes during one job.
MaxLines == 2

\* ----------------------------------------------------------- import unit
\* A file of the import unit: its directory, base name stem and extension,
\* and (zip imports) the archive part that holds it.
FileA == [dir |-> "Takeout/Google Photos", stem |-> "a", ext |-> ".jpg",
          zip |-> "takeout-001.zip"]
FileB == [dir |-> "Takeout/Drive", stem |-> "b", ext |-> ".txt",
          zip |-> "takeout-002.zip"]
\* The JSON sidecar of a photo, and a JSON document outside Google Photos.
FileC == [dir |-> "Takeout/Google Photos", stem |-> "a.jpg", ext |-> ".json",
          zip |-> "takeout-001.zip"]
FileD == [dir |-> "Takeout/Drive", stem |-> "d", ext |-> ".json",
          zip |-> "takeout-002.zip"]
\* A photo outside Google Photos with the base name of FileA.
FileE == [dir |-> "Takeout/Drive", stem |-> "a", ext |-> ".jpg",
          zip |-> "takeout-002.zip"]

\* The import units the model draws (the files of the archive or folder).
Units == { {}, {FileA, FileB, FileC, FileD} }

\* The archive parts of a zip import.
ZipFiles == {"takeout-001.zip", "takeout-002.zip"}

MEDIA_EXTENSIONS ==
    {".jpg", ".jpeg", ".png", ".gif", ".bmp", ".tiff", ".tif", ".webp",
     ".heic", ".heif", ".raw", ".cr2", ".nef", ".arw", ".dng",
     ".mp4", ".mov", ".avi", ".mkv", ".wmv", ".flv", ".webm", ".m4v",
     ".3gp", ".3g2", ".mpeg", ".mpg", ".mts", ".m2ts"}

is_media_file(f) == f.ext \in MEDIA_EXTENSIONS

is_google_photos_path(f) == f.dir \in {"Takeout/Google Photos", "Takeout/Google Foto's"}

is_json(f) == f.ext = ".json"

\* Path(...).name: the base name, without the directory.
filename(f) == <<f.stem, f.ext>>

Filenames == {filename(f) : f \in {FileA, FileB, FileC, FileD}}

\* --------------------------------------------------------- tool vocabulary
\* The outcome vocabulary of a file_result event.
FileStatuses ==
    {"uploaded", "server_duplicate", "local_duplicate", "server_better", "upgraded", "error"}

Absorbed == {"uploaded", "upgraded", "server_duplicate", "local_duplicate", "server_better"}

TerminalStatuses == {"completed", "completed_with_errors", "failed", "errored"}

\* ------------------------------------------------------------------ state
VARIABLES
    cfg,            \* the call: kind, unit, delete_after_import, copy_failed_files, max_retries
    pc,             \* position of the control thread
    meta,           \* "none" | "record" (an ImportMetadata) | "fallback" (a plain dict)
    status,         \* metadata['status'] in memory
    persisted,      \* the statuses written to the record file, in order, without repeats
    error_details,  \* metadata['error_details'] is set
    update_status_calls,
    manifest,       \* metadata.file_manifest: file -> [disposition, immich_status]
    attempt,        \* loop variable of _run_with_retry
    launches,       \* subprocess.run calls so far
    delays,         \* time.sleep(retry_delay) calls so far
    last_exit_code,
    last_results,
    results_accumulator,
    log_file,       \* [exists, lines]: the log the tool appends to
    tail,           \* the tail worker of the current attempt: [alive, pos, stop_event]
    late,           \* a worker that was still inside a line when its join timed out
    tool_lines,     \* the lines the tool has written in the current attempt
    tool_code,      \* the code the tool exited with in the current attempt
    history,        \* per finished attempt: what the tool did and what the worker had read
    local,          \* the orchestrator's locals has_errors and is_success
    final_status,
    ret,            \* "none" before the return, then the success flag returned
                    \* ("true" | "false"), or "raised" when the call raised
    deleted,        \* the source archives removed
    counts,         \* [extracted, failed] of the reconciliation
    flags,          \* what happened in the run (launch_failed, logged_error, ...)
    viewer,         \* the metadata viewer: a record file, its log, what is displayed
    cb,             \* the metadata callback: the manifest and the last event
    jobs,           \* the jobs created so far: record file, log, extract directory
    display,        \* the command of a job and the command string stored for it
    reader,         \* a tail worker reading a log that is appended to piecewise
    jobrec,         \* the contents of a job record: manifest keys, file_count, files
    threads         \* the runner, its child process and the tail workers it started

procVars == <<cfg, pc, meta, status, persisted, error_details, update_status_calls,
              local, final_status, ret, deleted, counts, flags>>
runVars == <<attempt, launches, delays, last_exit_code, last_results,
             results_accumulator, log_file, tail, late, tool_lines, tool_code, history>>
jobVars == <<procVars, runVars, manifest>>
\* The components modelled beside the job.
sideVars == <<viewer, cb, jobs, display, reader, jobrec, threads>>
vars == <<jobVars, sideVars>>

\* ------------------------------------------------------------ the record
\* ImportMetadata.save: the record file now holds the in-memory status.
\* (The history keeps each written status once, in order.)
save(written, st) ==
    IF written # <<>> /\ written[Len(written)] = st THEN written ELSE Append(written, st)

\* The manifest a new record is seeded with: every file pending.
init_manifest(unit) ==
    [f \in unit |-> [disposition |-> "pending", immich_status |-> "none"]]

NoManifest == [f \in {} |-> [disposition |-> "pending", immich_status |-> "none"]]

\* metadata.get('file_count', 0): a fallback dict has no such key.
file_count(m, man) == IF m = "record" THEN Cardinality(DOMAIN man) ELSE 0

\* ----------------------------------------------------------- the log
\* The lines the tool writes about the media files of the unit.
Messages == {"uploaded successfully", "server has duplicate", "upload error"}

LogLines(unit) == [file : {f \in unit : is_media_file(f)}, msg : Messages]

\* The status a message text stands for.
status_of_msg(msg) ==
    CASE msg = "uploaded successfully" -> "uploaded"
      [] msg = "server has duplicate" -> "server_duplicate"
      [] OTHER -> "error"

\* parse_log_entry: the normalized event of a decoded line.
parse_log_entry(line) ==
    [event_type |-> "file_result", path |-> line.file, filename |-> filename(line.file),
     status |-> status_of_msg(line.msg)]

\* For comparison: an accumulator that starts with one upload already counted.
results_with_one_uploaded ==
    [summary |-> [s \in FileStatuses |-> IF s = "uploaded" THEN 1 ELSE 0],
     files |-> [n \in Filenames |-> "none"]]

create_empty_results ==
    [summary |-> [s \in FileStatuses |-> 0], files |-> [n \in Filenames |-> "none"]]

\* For comparison: counters recomputed from the per-filename map, so that a
\* name reported twice counts once, under its last status.
accumulate_counts_files(acc, result) ==
    LET files == [acc.files EXCEPT ![result.filename] = result.status] IN
    [summary |-> [s \in FileStatuses |-> Cardinality({n \in Filenames : files[n] = s})],
     files |-> files]

\* _tail_log_file, one file_result event: the per-filename map keeps the last
\* status, the counter of the status goes up by one.
accumulate(acc, result) ==
    [summary |-> [acc.summary EXCEPT ![result.status] = @ + 1],
     files |-> [acc.files EXCEPT ![result.filename] = result.status]]

\* The accumulator after the given lines, from an empty one.
RECURSIVE accumulate_all(_, _)
accumulate_all(acc, lines) ==
    IF lines = <<>> THEN acc
    ELSE accumulate_all(accumulate(acc, parse_log_entry(Head(lines))), Tail(lines))

\* file_result_to_manifest_entry: the entry fields a file outcome sets.
file_result_to_manifest_entry(entry, result) ==
    [entry EXCEPT !.immich_status = result.status]

\* create_metadata_callback, a file_result event: the entry of a known path is
\* updated in place, an unknown path changes nothing.
callback(man, result) ==
    IF result.path \in DOMAIN man
    THEN [man EXCEPT ![result.path] = file_result_to_manifest_entry(@, result)]
    ELSE man

\* ------------------------------------------------------------ the runner
has_errors(results) == results.summary["error"] > 0

is_success(exit_code, results) == exit_code = 0 /\ ~has_errors(results)

\* For comparison: a runner that would work on the fallback dict as well.
accepts_plain_dict(m) == TRUE

\* upload_google_photos / upload_folder read attributes of the metadata object
\* (source_name, import_dir, zip_files, import_path): a plain dict has none.
has_metadata_attributes(m) == m = "record"

\* For comparison: a launch failure handled like an attempt that returned.
launch_failure_retried == "finally"

\* subprocess.run raised: the try has a finally and no except, the exception
\* leaves the loop.
launch_failure_target == "finally_exc"

\* For comparison: a loop that runs one attempt beyond the ceiling.
loop_continues_once_more(att, max) == att <= max

\* _run_with_retry: another attempt is started while the ceiling is not reached.
loop_continues(att, max) == att < max

\* _run_with_retry: the loop is left at once after an attempt that exited 0.
returns_after_attempt(returncode, results) == returncode = 0

\* For comparison: a retry that keeps the log of the attempt before.
log_kept(att, log) == log

\* The log is removed before every attempt but the first.
log_after_reset(att, log) ==
    IF att > 1 THEN [exists |-> FALSE, lines |-> <<>>] ELSE log

\* time.sleep(retry_delay) precedes every attempt but the first.
delays_after(att, d) == IF att > 1 THEN d + 1 ELSE d

\* -------------------------------------------------------- the reconciler
\* How one copy or extraction ends: the destination has the source's size,
\* a different size, the write raised, or (folder) the source is gone.
Outcomes == {"ok", "mismatch", "exception"}

FolderOutcomes == Outcomes \cup {"missing"}

disposition_of_status(st) ==
    CASE st \in {"uploaded", "upgraded"} -> "imported_to_immich"
      [] st \in {"server_duplicate", "local_duplicate", "server_better"} -> "skipped_duplicate"
      [] st = "error" -> "error"
      [] OTHER -> "processed"

\* apply_immich_results_to_manifest: media entries take the status the
\* results hold for their base name, or unknown.
apply_immich_results_to_manifest(man, results) ==
    [f \in DOMAIN man |->
        IF ~is_media_file(f) THEN man[f]
        ELSE IF results.files[filename(f)] # "none"
        THEN [disposition |-> disposition_of_status(results.files[filename(f)]),
              immich_status |-> results.files[filename(f)]]
        ELSE [disposition |-> "unknown", immich_status |-> "unknown"]]

was_imported(f, results) == results.files[filename(f)] \in Absorbed

\* extract_non_imported_from_zip (skip_google_photos=True): the member gets
\* past every "continue" and is written to the extract directory.
reaches_extraction(f, results) ==
    /\ ~(is_google_photos_path(f) /\ is_media_file(f) /\ was_imported(f, results))
    /\ ~(is_google_photos_path(f) /\ is_json(f))
    /\ ~is_json(f)
    /\ ~was_imported(f, results)

\* For comparison: an extraction that puts a member it could not write back
\* to 'pending'.
extract_disposition_resets(f, results, outcome) ==
    IF was_imported(f, results) THEN "imported_to_immich"
    ELSE IF is_json(f) THEN "skipped_json"
    ELSE IF outcome = "ok" THEN "extracted"
    ELSE "pending"

\* extract_non_imported_from_zip (skip_google_photos=True), one archive member.
extract_disposition(f, results, outcome) ==
    IF is_google_photos_path(f) /\ is_media_file(f) /\ was_imported(f, results)
    THEN "imported_to_immich"
    ELSE IF is_google_photos_path(f) /\ is_json(f) THEN "skipped_json"
    ELSE IF is_json(f) THEN "skipped_json"
    ELSE IF was_imported(f, results) THEN "imported_to_immich"
    ELSE IF outcome = "ok" THEN "extracted"
    ELSE "extract_failed"

\* extract_non_imported_from_zip: the members of every part that can be read
\* get their disposition; a part that cannot be read is logged and passed
\* over, its entries stay as they are.
extract_non_imported_from_zip(man, results, outcome, unreadable) ==
    [f \in DOMAIN man |->
        IF f.zip \in unreadable THEN man[f]
        ELSE [man[f] EXCEPT !.disposition =
                extract_disposition(f, results,
                    IF reaches_extraction(f, results) THEN outcome[f] ELSE "ok")]]

\* extract_non_imported_from_zip: extracted_count.
extracted_count(man, results, outcome, unreadable) ==
    Cardinality({f \in DOMAIN man : /\ f.zip \notin unreadable
                                    /\ reaches_extraction(f, results)
                                    /\ outcome[f] = "ok"})

\* extract_non_imported_from_zip: failed_count.
failed_count(man, results, outcome, unreadable) ==
    Cardinality({f \in DOMAIN man : /\ f.zip \notin unreadable
                                    /\ reaches_extraction(f, results)
                                    /\ outcome[f] # "ok"})

\* copy_remaining_from_folder: the entry is neither imported nor a .json
\* file, and copying was asked for.
reaches_copy(f, results, copy_failed) ==
    ~was_imported(f, results) /\ ~is_json(f) /\ copy_failed

\* For comparison: a copy that is not checked against the size of the source.
copy_disposition_ignores_size(f, results, copy_failed, outcome) ==
    IF was_imported(f, results) THEN "imported_to_immich"
    ELSE IF is_json(f) THEN "skipped_json"
    ELSE IF copy_failed /\ outcome \in {"ok", "mismatch"} THEN "copied_for_review"
    ELSE IF copy_failed /\ outcome = "exception" THEN "copy_failed"
    ELSE "not_processed"

\* copy_remaining_from_folder, one manifest entry.
copy_disposition(f, results, copy_failed, outcome) ==
    IF was_imported(f, results) THEN "imported_to_immich"
    ELSE IF is_json(f) THEN "skipped_json"
    ELSE IF copy_failed /\ outcome = "ok" THEN "copied_for_review"
    ELSE IF copy_failed /\ outcome \in {"mismatch", "exception"} THEN "copy_failed"
    ELSE IF results.files[filename(f)] = "error" THEN "error"
    ELSE IF results.files[filename(f)] # "none" THEN results.files[filename(f)]
    ELSE "not_processed"

copy_remaining_from_folder(man, results, copy_failed, outcome) ==
    [f \in DOMAIN man |->
        [man[f] EXCEPT !.disposition =
            copy_disposition(f, results, copy_failed,
                IF reaches_copy(f, results, copy_failed) THEN outcome[f] ELSE "ok")]]

\* copy_remaining_from_folder: copy_failed_count.
copy_failed_count(man, results, copy_failed, outcome) ==
    Cardinality({f \in DOMAIN man : /\ reaches_copy(f, results, copy_failed)
                                    /\ outcome[f] \in {"mismatch", "exception"}})

\* The helpers loop "for f in file_manifest" and read f as an entry, and are
\* handed the path-keyed manifest: with at least one file the loop body can
\* raise; with none it does not run.
iteration_can_raise(man) == DOMAIN man # {}

\* The files whose copy exists with exactly the size of the source.
verified(outcome) == {f \in DOMAIN outcome : outcome[f] = "ok"}

\* The sets of archive parts that cannot be opened when the remaining files
\* are extracted.
UnreadableSets == SUBSET ZipFiles

\* The archive members extract_non_imported_from_zip writes out.
extraction_members(man, results, unreadable) ==
    {f \in DOMAIN man : f.zip \notin unreadable /\ reaches_extraction(f, results)}

\* The manifest entries copy_remaining_from_folder tries to copy.
copy_members(man, results, copy_failed) ==
    {f \in DOMAIN man : reaches_copy(f, results, copy_failed)}

\* ----------------------------------------------------- the orchestrator
\* For comparison: a final status that calls every unsuccessful job failed.
determine_final_status_errors_fail(success, errors) ==
    IF success /\ ~errors THEN "completed" ELSE "failed"

\* "Determine final status" of process_google_photos_zips and process_folder.
determine_final_status(success, errors) ==
    IF success /\ ~errors THEN "completed"
    ELSE IF errors THEN "completed_with_errors"
    ELSE "failed"

\* "Delete zips only if successful and no errors".
deletes_zips(delete_after_import, success, errors) ==
    delete_after_import /\ success /\ ~errors

\* The success flag of the returned pair.
returned(success) == IF success THEN "true" ELSE "false"

\* Where the control thread goes once has_errors and is_success are computed.
after_upload(kind) == IF kind = "zip" THEN "apply" ELSE "reconcile"

\* No worker outlives its join.
NoLate == [phase |-> "none", line |-> <<>>, attempt |-> 0, snap |-> "none"]

NoFlags ==
    [create_raised |-> FALSE, exception |-> FALSE, launch_failed |-> FALSE,
     reconciled |-> FALSE, persist_failed |-> FALSE, delete_branch |-> FALSE,
     unlink_raised |-> {}, verified |-> {}, unreadable |-> {},
     summary_read |-> create_empty_results.files]

\* No record is being displayed.
NoViewer == [shown |-> "unused"]

\* The state of a job before CreateRunningMetadata.
InitRun ==
    /\ pc = "start"
    /\ meta = "none"
    /\ status = "none"
    /\ persisted = <<>>
    /\ error_details = FALSE
    /\ update_status_calls = 0
    /\ manifest = NoManifest
    /\ attempt = 0
    /\ launches = 0
    /\ delays = 0
    /\ last_exit_code = -1
    /\ last_results = create_empty_results
    /\ results_accumulator = create_empty_results
    /\ log_file = [exists |-> FALSE, lines |-> <<>>]
    /\ tail = [alive |-> FALSE, pos |-> 0, stop_event |-> FALSE]
    /\ late = NoLate
    /\ local = [has_errors |-> FALSE, is_success |-> FALSE]
    /\ tool_lines = <<>>
    /\ tool_code = -1
    /\ history = <<>>
    /\ final_status = "none"
    /\ ret = "none"
    /\ deleted = {}
    /\ counts = [extracted |-> 0, failed |-> 0]
    /\ flags = NoFlags

InitJob ==
    /\ cfg \in [kind : {"zip", "folder"}, unit : Units, delete_after_import : BOOLEAN,
                copy_failed_files : BOOLEAN, max_retries : 0..MaxRetries]
    /\ cfg.kind = "zip" => ~cfg.copy_failed_files
    /\ cfg.kind = "folder" => ~cfg.delete_after_import
    /\ InitRun

\* No event has reached the callback.
NoCallback == [saved |-> "unused"]

\* No job has been created.
NoJobs == [clock |-> -1, created |-> <<>>]

\* No command has been built.
NoDisplay == [stored |-> "unused"]

\* No log is being read.
NoReader == [pos |-> -1]

\* No record's contents are followed.
NoRec == [phase |-> "unused"]

\* No runner is followed with its workers.
NoThreads == [pc |-> "unused"]

Init ==
    /\ InitJob
    /\ viewer = NoViewer
    /\ cb = NoCallback
    /\ jobs = NoJobs
    /\ display = NoDisplay
    /\ reader = NoReader
    /\ jobrec = NoRec /\ threads = NoThreads

\* A unit of two photos with the same base name in different directories,
\* one attempt, deletion and copying switched on.
InitSameName ==
    /\ cfg \in [kind : {"zip", "folder"}, unit : {{FileA, FileE}},
                delete_after_import : BOOLEAN, copy_failed_files : BOOLEAN,
                max_retries : {1}]
    /\ cfg.kind = "zip" => cfg.delete_after_import /\ ~cfg.copy_failed_files
    /\ cfg.kind = "folder" => ~cfg.delete_after_import /\ cfg.copy_failed_files
    /\ InitRun
    /\ viewer = NoViewer
    /\ cb = NoCallback
    /\ jobs = NoJobs
    /\ display = NoDisplay
    /\ reader = NoReader
    /\ jobrec = NoRec /\ threads = NoThreads

\* ------------------------------------------------------------- actions
\* process_*: "Create 'running' metadata before starting import". A raise of
\* the constructor or of the first save leaves the fallback dict.
CreateRunningMetadata ==
    /\ pc = "start"
    /\ \E raises \in BOOLEAN :
        IF raises
        THEN /\ meta' = "fallback"
             /\ flags' = [flags EXCEPT !.create_raised = TRUE]
             /\ UNCHANGED <<status, persisted, manifest>>
        ELSE /\ meta' = "record"
             /\ status' = "running"
             /\ persisted' = save(persisted, "running")
             /\ manifest' = init_manifest(cfg.unit)
             /\ flags' = flags
    /\ pc' = IF cfg.kind = "zip" THEN "upload" ELSE "check_empty"
    /\ UNCHANGED <<cfg, error_details, update_status_calls, local, final_status, ret,
                   deleted, counts, runVars>>
    /\ UNCHANGED sideVars

\* process_folder: "Check if folder is empty" returns (True, empty results).
FolderEmptyCheck ==
    /\ pc = "check_empty"
    /\ IF file_count(meta, manifest) = 0
       THEN pc' = "done" /\ ret' = returned(TRUE)
       ELSE pc' = "upload" /\ ret' = ret
    /\ UNCHANGED <<cfg, meta, status, persisted, error_details, update_status_calls,
                   local, final_status, deleted, counts, flags, runVars, manifest>>
    /\ UNCHANGED sideVars

\* upload_google_photos / upload_folder up to the call of _run_with_retry:
\* attribute access on the metadata object, the command, one save.
UploadSetup ==
    /\ pc = "upload"
    /\ IF ~has_metadata_attributes(meta)
       THEN pc' = "except" /\ UNCHANGED <<persisted, flags>>
       ELSE \E saved \in BOOLEAN :
               IF saved
               THEN persisted' = save(persisted, status) /\ pc' = "loop" /\ flags' = flags
               ELSE /\ persisted' = persisted
                    /\ pc' = "except"
                    /\ flags' = [flags EXCEPT !.exception = TRUE]
    /\ UNCHANGED <<cfg, meta, status, error_details, update_status_calls, local,
                   final_status, ret, deleted, counts, runVars, manifest>>
    /\ UNCHANGED sideVars

\* _run_with_retry, the head of the loop: the delay and the log reset of a
\* retry, a fresh accumulator, the tail worker started; or the loop is over.
LoopHead ==
    /\ pc = "loop"
    /\ IF loop_continues(attempt, cfg.max_retries)
       THEN /\ attempt' = attempt + 1
            /\ delays' = delays_after(attempt + 1, delays)
            /\ log_file' = log_after_reset(attempt + 1, log_file)
            /\ results_accumulator' = create_empty_results
            /\ tail' = [alive |-> TRUE, pos |-> 0, stop_event |-> FALSE]
            /\ tool_lines' = <<>>
            /\ tool_code' = -1
            /\ pc' = "run"
       ELSE /\ pc' = "has_errors"
            /\ UNCHANGED <<attempt, delays, log_file, results_accumulator, tail,
                           tool_lines, tool_code>>
    /\ UNCHANGED <<cfg, meta, status, persisted, error_details, update_status_calls,
                   local, final_status, ret, deleted, counts, flags, manifest,
                   launches, last_exit_code, last_results, late, history>>
    /\ UNCHANGED sideVars

\* subprocess.run(cmd): the child starts, or the call raises.
Launch ==
    /\ pc = "run"
    /\ launches' = launches + 1
    /\ \E raises \in BOOLEAN :
        IF raises
        THEN /\ pc' = launch_failure_target
             /\ flags' = [flags EXCEPT !.launch_failed = TRUE, !.exception = TRUE]
        ELSE pc' = "tool" /\ flags' = flags
    /\ UNCHANGED <<cfg, meta, status, persisted, error_details, update_status_calls,
                   local, final_status, ret, deleted, counts, manifest,
                   attempt, delays, last_exit_code, last_results, results_accumulator,
                   log_file, tail, late, tool_lines, tool_code, history>>
    /\ UNCHANGED sideVars

RECURSIVE sum_written(_)
sum_written(h) == IF h = <<>> THEN 0 ELSE Head(h).written + sum_written(Tail(h))

\* The lines the tool has written during the job, over all attempts.
TotalLines == Len(tool_lines) + sum_written(history)

\* The external tool appends one line to its log (creating the file).
ToolWrite ==
    /\ pc = "tool"
    /\ TotalLines < MaxLines
    /\ \E line \in LogLines(cfg.unit) :
        /\ log_file' = [exists |-> TRUE, lines |-> Append(log_file.lines, line)]
        /\ tool_lines' = Append(tool_lines, line)
    /\ UNCHANGED <<procVars, manifest, attempt, launches, delays, last_exit_code,
                   last_results, results_accumulator, tail, late, tool_code, history>>
    /\ UNCHANGED sideVars

\* The external tool exits: subprocess.run returns its code.
ToolExit ==
    /\ pc = "tool"
    /\ \E code \in {0, 1} : last_exit_code' = code /\ tool_code' = code
    /\ pc' = "finally"
    /\ UNCHANGED <<cfg, meta, status, persisted, error_details, update_status_calls,
                   local, final_status, ret, deleted, counts, flags, manifest,
                   attempt, launches, delays, last_results, results_accumulator,
                   log_file, tail, late, tool_lines, history>>
    /\ UNCHANGED sideVars

\* _tail_log_file, one line: parsed, accumulated, handed to the callback,
\* which updates the manifest entry and saves the record.
TailRead ==
    /\ tail.alive /\ ~tail.stop_event
    /\ log_file.exists
    /\ tail.pos < Len(log_file.lines)
    /\ LET result == parse_log_entry(log_file.lines[tail.pos + 1]) IN
        /\ results_accumulator' = accumulate(results_accumulator, result)
        /\ manifest' = callback(manifest, result)
        /\ persisted' = IF result.path \in DOMAIN manifest
                        THEN save(persisted, status) ELSE persisted
    /\ tail' = [tail EXCEPT !.pos = @ + 1]
    /\ UNCHANGED <<cfg, pc, meta, status, error_details, update_status_calls, local,
                   final_status, ret, deleted, counts, flags,
                   attempt, launches, delays, last_exit_code, last_results,
                   log_file, late, tool_lines, tool_code, history>>
    /\ UNCHANGED sideVars

\* _tail_log_file: the log was not created within the 30 polls; the worker returns.
TailGiveUp ==
    /\ tail.alive /\ ~tail.stop_event
    /\ ~log_file.exists
    /\ tail' = [tail EXCEPT !.alive = FALSE]
    /\ UNCHANGED <<procVars, manifest, attempt, launches, delays, last_exit_code,
                   last_results, results_accumulator, log_file, late, tool_lines,
                   tool_code, history>>
    /\ UNCHANGED sideVars

\* tail_thread.join(timeout=2.0) returns although the worker has not ended:
\* the worker had taken a line and is still in it (the callback saves the
\* whole record). One such worker is followed at a time.
join_can_time_out(t, log, l) ==
    t.alive /\ log.exists /\ t.pos < Len(log.lines) /\ l.phase = "none"

\* _run_with_retry, the finally block and what follows a returned child: the
\* stop event is set and the worker joined for at most 2 s, the accumulator
\* becomes the result (the same object), the loop is left on exit code 0.
StopTail ==
    /\ pc = "finally"
    /\ \E timed_out \in {FALSE, join_can_time_out(tail, log_file, late)} :
        late' = IF timed_out
                THEN [phase |-> "line", line |-> <<log_file.lines[tail.pos + 1]>>,
                      attempt |-> attempt, snap |-> "none"]
                ELSE late
    /\ tail' = [tail EXCEPT !.alive = FALSE, !.stop_event = TRUE]
    /\ last_results' = results_accumulator
    /\ history' = Append(history, [exit_code |-> tool_code,
                                   written |-> Len(tool_lines),
                                   read |-> tail.pos,
                                   errors |-> results_accumulator.summary["error"],
                                   uploaded |-> results_accumulator.summary["uploaded"],
                                   files |-> results_accumulator.files])
    /\ pc' = IF returns_after_attempt(last_exit_code, results_accumulator)
             THEN "has_errors" ELSE "loop"
    /\ UNCHANGED <<cfg, meta, status, persisted, error_details, update_status_calls,
                   local, final_status, ret, deleted, counts, flags, manifest,
                   attempt, launches, delays, last_exit_code, results_accumulator,
                   log_file, tool_lines, tool_code>>
    /\ UNCHANGED sideVars

\* _run_with_retry, the finally block when subprocess.run raised: the worker
\* is stopped and the exception leaves the runner.
StopTailRaise ==
    /\ pc = "finally_exc"
    /\ tail' = [tail EXCEPT !.alive = FALSE, !.stop_event = TRUE]
    /\ pc' = "except"
    /\ UNCHANGED <<cfg, meta, status, persisted, error_details, update_status_calls,
                   local, final_status, ret, deleted, counts, flags, manifest,
                   attempt, launches, delays, last_exit_code, last_results,
                   results_accumulator, log_file, late, tool_lines, tool_code, history>>
    /\ UNCHANGED sideVars

\* _tail_log_file in a worker whose join timed out: the line it holds is
\* accumulated into the accumulator of its attempt (which the runner may have
\* returned already), the callback updates the manifest entry and save()
\* opens the record and takes dict(self).
LateProcess ==
    /\ late.phase = "line"
    /\ LET result == parse_log_entry(late.line[1]) IN
        /\ results_accumulator' = IF late.attempt = attempt
                                  THEN accumulate(results_accumulator, result)
                                  ELSE results_accumulator
        /\ last_results' = IF late.attempt = Len(history)
                           THEN accumulate(last_results, result)
                           ELSE last_results
        /\ manifest' = callback(manifest, result)
        /\ late' = IF result.path \in DOMAIN manifest
                   THEN [late EXCEPT !.phase = "dump", !.snap = status]
                   ELSE NoLate
    /\ tail' = IF late.attempt = attempt THEN [tail EXCEPT !.pos = @ + 1] ELSE tail
    /\ UNCHANGED <<procVars, attempt, launches, delays, last_exit_code, log_file,
                   tool_lines, tool_code, history>>
    /\ UNCHANGED sideVars

\* ImportMetadata.save in that worker: json.dump writes the dict it took; the
\* file then holds that status, whatever was written in between. After the
\* line the worker sees the stop event and ends.
LateWrite ==
    /\ late.phase = "dump"
    /\ persisted' = save(persisted, late.snap)
    /\ late' = NoLate
    /\ UNCHANGED <<cfg, pc, meta, status, error_details, update_status_calls, local,
                   final_status, ret, deleted, counts, flags, manifest,
                   attempt, launches, delays, last_exit_code, last_results,
                   results_accumulator, log_file, tail, tool_lines, tool_code, history>>
    /\ UNCHANGED sideVars

\* process_*: has_errors = self.runner.has_errors(immich_results).
EvalHasErrors ==
    /\ pc = "has_errors"
    /\ local' = [local EXCEPT !.has_errors = has_errors(last_results)]
    /\ pc' = "is_success"
    /\ UNCHANGED <<cfg, meta, status, persisted, error_details, update_status_calls,
                   final_status, ret, deleted, counts, flags, runVars, manifest>>
    /\ UNCHANGED sideVars

\* process_*: is_success = self.runner.is_success(exit_code, immich_results).
EvalIsSuccess ==
    /\ pc = "is_success"
    /\ local' = [local EXCEPT !.is_success = is_success(last_exit_code, last_results)]
    /\ pc' = after_upload(cfg.kind)
    /\ UNCHANGED <<cfg, meta, status, persisted, error_details, update_status_calls,
                   final_status, ret, deleted, counts, flags, runVars, manifest>>
    /\ UNCHANGED sideVars

\* process_google_photos_zips: apply_immich_results_to_manifest on the
\* manifest. It is called outside any try: if it raises, the call raises.
ApplyResults ==
    /\ pc = "apply"
    /\ \E raises \in {FALSE, iteration_can_raise(manifest)} :
        IF raises
        THEN /\ pc' = "done"
             /\ ret' = "raised"
             /\ manifest' = manifest
             /\ flags' = [flags EXCEPT !.exception = TRUE]
        ELSE /\ pc' = "reconcile"
             /\ ret' = ret
             /\ manifest' = apply_immich_results_to_manifest(manifest, last_results)
             /\ flags' = flags
    /\ UNCHANGED <<cfg, meta, status, persisted, error_details, update_status_calls,
                   local, final_status, deleted, counts, runVars>>
    /\ UNCHANGED sideVars

\* process_google_photos_zips: extract_non_imported_from_zip, every member
\* that has to be extracted ends in one of the outcomes. Outside any try.
ReconcileZip ==
    /\ pc = "reconcile" /\ cfg.kind = "zip"
    /\ \E raises \in {FALSE, iteration_can_raise(manifest)} :
        IF raises
        THEN /\ pc' = "done"
             /\ ret' = "raised"
             /\ flags' = [flags EXCEPT !.exception = TRUE]
             /\ UNCHANGED <<manifest, counts>>
        ELSE \E unreadable \in UnreadableSets :
             \E outcome \in [extraction_members(manifest, last_results, unreadable)
                               -> Outcomes] :
             /\ manifest' = extract_non_imported_from_zip(manifest, last_results,
                                                          outcome, unreadable)
             /\ counts' = [extracted |-> extracted_count(manifest, last_results,
                                                         outcome, unreadable),
                           failed |-> failed_count(manifest, last_results,
                                                   outcome, unreadable)]
             /\ flags' = [flags EXCEPT !.reconciled = TRUE,
                                       !.verified = verified(outcome),
                                       !.unreadable = unreadable,
                                       !.summary_read = last_results.files]
             /\ pc' = "finalize"
             /\ ret' = ret
    /\ UNCHANGED <<cfg, meta, status, persisted, error_details, update_status_calls,
                   local, final_status, deleted, runVars>>
    /\ UNCHANGED sideVars

\* process_folder: copy_remaining_from_folder, which counts the failed copies
\* and keeps no count of the copies made. Outside any try.
ReconcileFolder ==
    /\ pc = "reconcile" /\ cfg.kind = "folder"
    /\ \E raises \in {FALSE, iteration_can_raise(manifest)} :
        IF raises
        THEN /\ pc' = "done"
             /\ ret' = "raised"
             /\ flags' = [flags EXCEPT !.exception = TRUE]
             /\ UNCHANGED <<manifest, counts>>
        ELSE \E outcome \in [copy_members(manifest, last_results,
                                            cfg.copy_failed_files) -> FolderOutcomes] :
             /\ manifest' = copy_remaining_from_folder(manifest, last_results,
                                                      cfg.copy_failed_files, outcome)
             /\ counts' = [extracted |-> 0,
                           failed |-> copy_failed_count(manifest, last_results,
                                                        cfg.copy_failed_files, outcome)]
             /\ flags' = [flags EXCEPT !.reconciled = TRUE,
                                       !.verified = verified(outcome),
                                       !.summary_read = last_results.files]
             /\ pc' = "finalize"
             /\ ret' = ret
    /\ UNCHANGED <<cfg, meta, status, persisted, error_details, update_status_calls,
                   local, final_status, deleted, runVars>>
    /\ UNCHANGED sideVars

\* "Determine final status" and metadata.update_status(final_status, ...): the
\* status is set in memory, then saved; a failed save is caught and logged.
\* process_folder returns here.
Finalize ==
    /\ pc = "finalize"
    /\ final_status' = determine_final_status(local.is_success, local.has_errors)
    /\ status' = final_status'
    /\ update_status_calls' = update_status_calls + 1
    /\ \E saved \in BOOLEAN :
        IF saved
        THEN persisted' = save(persisted, final_status') /\ flags' = flags
        ELSE persisted' = persisted /\ flags' = [flags EXCEPT !.persist_failed = TRUE]
    /\ IF cfg.kind = "zip"
       THEN pc' = "delete" /\ ret' = ret
       ELSE pc' = "done" /\ ret' = returned(local.is_success)
    /\ UNCHANGED <<cfg, meta, error_details, local, deleted, counts, runVars, manifest>>
    /\ UNCHANGED sideVars

\* process_google_photos_zips: the deletion of the source archives and the
\* return. An archive whose unlink raises stays, the loop goes on.
DeleteZips ==
    /\ pc = "delete"
    /\ IF deletes_zips(cfg.delete_after_import, local.is_success, local.has_errors)
       THEN \E unlink_raises \in SUBSET ZipFiles :
              /\ deleted' = ZipFiles \ unlink_raises
              /\ flags' = [flags EXCEPT !.delete_branch = TRUE,
                                         !.unlink_raised = unlink_raises]
       ELSE UNCHANGED <<deleted, flags>>
    /\ ret' = returned(local.is_success)
    /\ pc' = "done"
    /\ UNCHANGED <<cfg, meta, status, persisted, error_details, update_status_calls,
                   local, final_status, counts, runVars, manifest>>
    /\ UNCHANGED sideVars

\* The except branch around the runner call: update_status('errored') on an
\* ImportMetadata (a failed save is caught), then (False, empty results).
ExceptUpload ==
    /\ pc = "except"
    /\ IF meta = "record"
       THEN /\ status' = "errored"
            /\ error_details' = TRUE
            /\ update_status_calls' = update_status_calls + 1
            /\ \E saved \in BOOLEAN :
                 IF saved
                 THEN persisted' = save(persisted, "errored") /\ flags' = flags
                 ELSE /\ persisted' = persisted
                      /\ flags' = [flags EXCEPT !.persist_failed = TRUE]
       ELSE UNCHANGED <<status, error_details, update_status_calls, persisted, flags>>
    /\ ret' = returned(FALSE)
    /\ pc' = "done"
    /\ UNCHANGED <<cfg, meta, local, final_status, deleted, counts, runVars, manifest>>
    /\ UNCHANGED sideVars

Next ==
    \/ CreateRunningMetadata
    \/ FolderEmptyCheck
    \/ UploadSetup
    \/ LoopHead
    \/ Launch
    \/ ToolWrite
    \/ ToolExit
    \/ TailRead
    \/ TailGiveUp
    \/ StopTail
    \/ StopTailRaise
    \/ LateProcess
    \/ LateWrite
    \/ EvalHasErrors
    \/ EvalIsSuccess
    \/ ApplyResults
    \/ ReconcileZip
    \/ ReconcileFolder
    \/ Finalize
    \/ DeleteZips
    \/ ExceptUpload

Spec == Init /\ [][Next]_vars

\* The same job on the unit of InitSameName.
SpecSameName == InitSameName /\ [][Next]_vars

\* ------------------------------------------------- the metadata viewer
\* A job that does nothing, beside which another component is followed.
IdleCfg ==
    [kind |-> "zip", unit |-> {}, delete_after_import |-> FALSE,
     copy_failed_files |-> FALSE, max_retries |-> 0]

IdleJob == InitJob /\ cfg = IdleCfg

\* data['status'] of a record file.
RecordStatuses == {"running"} \cup TerminalStatuses

\* Seconds since the update_time of the record.
UpdateAges == {30, 61, 120, 121, 300}

\* Seconds since the log file was last modified.
LogAges == {10, 119, 120, 300}

\* The local UTC offset now minus the local UTC offset when the log was last
\* modified, in seconds (a change of daylight saving time in between).
OffsetShifts == {-3600, 0, 3600}

\* log_path.exists(), log_path = METADATA_DIR / data['immich_go_log']: the
\* record holds "logs/<name>", the runner writes to log_dir / <name>, and
\* log_dir is LOG_DIR, by default METADATA_DIR / "logs".
log_path_exists(log) == log.exists /\ log.in_metadata_logs

\* (now - log_mtime).total_seconds(), both naive local times.
log_age(log, shift) == log.age + shift

\* load_metadata_files: log_active.
log_active(rec, log, shift) ==
    /\ rec.has_log /\ rec.age > 60
    /\ log_path_exists(log)
    /\ log_age(log, shift) < 120

\* load_metadata_files: the status shown for a record.
displayed_status(rec, log, shift) ==
    IF /\ rec.status = "running" /\ rec.has_update_time
       /\ rec.age > 120 /\ ~log_active(rec, log, shift)
    THEN "timeout"
    ELSE rec.status

InitViewer ==
    /\ IdleJob
    /\ viewer \in [record : [status : RecordStatuses, age : UpdateAges,
                             has_update_time : BOOLEAN, has_log : BOOLEAN],
                   log : [exists : BOOLEAN, in_metadata_logs : BOOLEAN, age : LogAges],
                   shift : OffsetShifts,
                   shown : {"none"}]
    \* a job that writes a log has recorded it (ImportMetadata.__init__)
    /\ viewer.log.exists => viewer.record.has_log
    /\ cb = NoCallback /\ jobs = NoJobs /\ display = NoDisplay /\ reader = NoReader /\ jobrec = NoRec /\ threads = NoThreads

\* load_metadata_files, one record file: the data is read and the status to
\* display is set in the copy that was read.
LoadMetadataFiles ==
    /\ viewer.shown = "none"
    /\ viewer' = [viewer EXCEPT
                    !.shown = displayed_status(viewer.record, viewer.log, viewer.shift)]
    /\ UNCHANGED <<jobVars, cb, jobs, display, reader, jobrec, threads>>

NextViewer == LoadMetadataFiles

SpecViewer == InitViewer /\ [][NextViewer]_vars

\* ----------------------------------------------- the metadata callback
\* The paths of the manifest, and the one that is followed.
KnownPath == "Takeout/Google Photos/a.jpg"

KnownPaths == {KnownPath, "Takeout/Google Photos/b.jpg"}

\* result['path'] of an event: a path of the manifest, a path the manifest
\* does not hold, or none.
EventPaths == KnownPaths \cup {"other.jpg", ""}

\* result['event_type'], as parse_log_entry gives it.
EventTypes == {"file_result", "album", "tag", "discovery", "stack", "album_created", "error"}

\* result['album'] / result['tag'].
EventValues == {"", "Trip", "Home"}

\* result['status'] of a file outcome.
EventStatuses == {"uploaded"}

\* The events: a status is read of a file outcome only, an album or tag
\* name of an album or tag event only; one tag name is enough to repeat it.
Events ==
    {e \in [type : EventTypes, path : EventPaths, value : EventValues,
            status : EventStatuses] :
        /\ e.type \notin {"album", "tag"} => e.value = ""
        /\ e.type = "tag" => e.value # "Home"}

\* A manifest entry as the constructor leaves it: no outcome, and neither
\* the key 'albums' nor the key 'tags'.
NewEntry ==
    [immich_status |-> "none", has_albums |-> FALSE, albums |-> <<>>,
     has_tags |-> FALSE, tags |-> <<>>]

\* For comparison: a membership test that never finds the name.
never_in_list(x, l) == FALSE

\* album in manifest_entry['albums'].
in_list(x, l) == \E i \in 1..Len(l) : l[i] = x

\* For comparison: a lookup that gives every entry for any path.
file_manifest_get_any(man, path) == DOMAIN man

\* 'and path' with metadata.file_manifest.get(path): the entries found.
file_manifest_get(man, path) == IF path # "" /\ path \in DOMAIN man THEN {path} ELSE {}

\* create_metadata_callback: what the event does to the entry it found.
update_entry(entry, e) ==
    IF e.type = "file_result" THEN [entry EXCEPT !.immich_status = e.status]
    ELSE IF e.type = "album"
    THEN [entry EXCEPT !.has_albums = TRUE,
                       !.albums = IF e.value # "" /\ ~in_list(e.value, @)
                                  THEN Append(@, e.value) ELSE @]
    ELSE IF e.type = "tag"
    THEN [entry EXCEPT !.has_tags = TRUE,
                       !.tags = IF e.value # "" /\ ~in_list(e.value, @)
                                THEN Append(@, e.value) ELSE @]
    ELSE entry

\* create_metadata_callback: what the event does to the manifest.
on_event(man, e) ==
    [p \in DOMAIN man |->
        IF p \in file_manifest_get(man, e.path) THEN update_entry(man[p], e) ELSE man[p]]

\* create_metadata_callback: the event leads to metadata.save(). A file
\* outcome reaches the save only past metadata.files.append, which raises for
\* a record that has no attribute files.
persists(metadata, e) ==
    \E p \in file_manifest_get(metadata.manifest, e.path) :
        \/ e.type = "file_result" /\ metadata.has_files
        \/ e.type = "album" /\ e.value # "" /\ ~in_list(e.value, metadata.manifest[p].albums)
        \/ e.type = "tag" /\ e.value # "" /\ ~in_list(e.value, metadata.manifest[p].tags)

\* The names of a list, without their order.
Members(l) == {l[i] : i \in 1..Len(l)}

\* The manifest with every albums and tags list taken as a set.
AsSets(man) ==
    [p \in DOMAIN man |-> [man[p] EXCEPT !.albums = Members(@), !.tags = Members(@)]]

\* The album and tag events that name an album or a tag of a manifest path.
AssociationEvents ==
    {e \in Events : e.type \in {"album", "tag"} /\ e.path \in KnownPaths /\ e.value # ""}

InitCallback ==
    /\ IdleJob
    /\ \E has_files \in BOOLEAN :
        cb = [manifest |-> [p \in KnownPaths |-> NewEntry],
              has_files |-> has_files,
               last |-> [type |-> "discovery", path |-> "", value |-> "", status |-> "uploaded"],
              saved |-> "none"]
    /\ viewer = NoViewer /\ jobs = NoJobs /\ display = NoDisplay /\ reader = NoReader /\ jobrec = NoRec /\ threads = NoThreads

\* create_metadata_callback, one call of callback(result).
OnEvent ==
    /\ cb.saved # "unused"
    /\ \E e \in Events :
        cb' = [manifest |-> on_event(cb.manifest, e),
               has_files |-> cb.has_files,
               last |-> e,
               saved |-> IF persists(cb, e) THEN "saved" ELSE "not saved"]
    /\ UNCHANGED <<jobVars, viewer, jobs, display, reader, jobrec, threads>>

NextCallback == OnEvent

SpecCallback == InitCallback /\ [][NextCallback]_vars

\* ------------------------------------------- job ids and side directories
\* Last second of the clock, and largest number of jobs created.
MaxSecond == 2
MaxJobs == 2

\* The export prefixes (zip imports) and folder names (folder imports).
SourceNames == {"takeout-20240427T195310Z", "DCIM"}

\* datetime.now().strftime('%Y%m%d_%H%M%S'): one value per second.
timestamp(second) == "20240501_12000" \o ToString(second)

\* ImportMetadata: source_name (_init_zip_files, _init_from_folder).
source_name(kind, name, second) ==
    IF kind = "zip" THEN name ELSE name \o "_" \o timestamp(second)

\* ImportMetadata.__init__: self._file_path, under the metadata directory.
record_file_path(kind, name, second) ==
    source_name(kind, name, second) \o "." \o timestamp(second) \o ".metadata.json"

\* ImportMetadata: self['immich_go_log'], of which the runner takes the name
\* under its log directory.
immich_go_log(kind, name, second) ==
    IF kind = "zip"
    THEN source_name(kind, name, second) \o ".immich-go." \o timestamp(second) \o ".log"
    ELSE "upload-" \o name \o ".immich-go." \o timestamp(second) \o ".log"

\* process_google_photos_zips / process_folder: extract_dir, under the
\* extract base directory ("" when the job has none).
extract_dir(kind, name, second, copy_failed) ==
    IF kind = "zip" THEN name \o "-extracted"
    ELSE IF copy_failed THEN name \o "-" \o timestamp(second) \o "-failed"
    ELSE ""

InitJobs ==
    /\ IdleJob
    /\ jobs = [clock |-> 0, created |-> <<>>]
    /\ viewer = NoViewer /\ cb = NoCallback /\ display = NoDisplay /\ reader = NoReader /\ jobrec = NoRec /\ threads = NoThreads

\* A second goes by.
Tick ==
    /\ jobs.clock >= 0 /\ jobs.clock < MaxSecond
    /\ jobs' = [jobs EXCEPT !.clock = @ + 1]
    /\ UNCHANGED <<jobVars, viewer, cb, display, reader, jobrec, threads>>

\* process_google_photos_zips / process_folder up to the first save: the
\* record of the job, its log and its extract directory get their names.
CreateJob ==
    /\ jobs.clock >= 0 /\ Len(jobs.created) < MaxJobs
    /\ \E kind \in {"zip", "folder"}, name \in SourceNames, copy_failed \in BOOLEAN :
        /\ kind = "zip" => ~copy_failed
        /\ jobs' = [jobs EXCEPT !.created = Append(@,
              [kind |-> kind, name |-> name, second |-> jobs.clock,
               record |-> record_file_path(kind, name, jobs.clock),
               log |-> immich_go_log(kind, name, jobs.clock),
               extract |-> extract_dir(kind, name, jobs.clock, copy_failed)])]
    /\ UNCHANGED <<jobVars, viewer, cb, display, reader, jobrec, threads>>

NextJobs == Tick \/ CreateJob

SpecJobs == InitJobs /\ [][NextJobs]_vars

\* ------------------------------------------------- the stored command
\* Strings are sequences of one-character strings, so that replacement and
\* the substring test are computed and not assumed.
MASK == <<"*", "*", "*", "A", "P", "I", "_", "K", "E", "Y", "*", "*", "*">>

\* The API keys and server addresses tried: short keys over letters of which
\* some occur in the mask or in the fixed words of the command.
KeyChars == {"K", "E", "o", "x"}
ApiKeys == {<<a>> : a \in KeyChars} \cup {<<a, b>> : a, b \in KeyChars}
ServerUrls == {<<"h", "t", "t", "p", ":", "/", "/", "i", "m", "m", "i", "c", "h", ":", "2", "2", "8", "3">>, <<"h", "t", "t", "p", ":", "/", "/", "x">>}

\* ' '.join(cmd)
RECURSIVE join(_)
join(words) ==
    IF words = <<>> THEN <<>>
    ELSE IF Len(words) = 1 THEN words[1]
    ELSE words[1] \o <<" ">> \o join(Tail(words))

\* str.replace(old, new) for a non-empty old: the leftmost occurrence is
\* replaced and the search goes on behind it (no overlap, the result is not
\* searched again).
RECURSIVE replace(_, _, _)
replace(s, old, new) ==
    LET found == {i \in 1..(Len(s) - Len(old) + 1) : SubSeq(s, i, i + Len(old) - 1) = old}
    IN IF found = {} THEN s
       ELSE LET first == CHOOSE i \in found : \A j \in found : i <= j
            IN SubSeq(s, 1, first - 1) \o new
                 \o replace(SubSeq(s, first + Len(old), Len(s)), old, new)

\* _build_common_flags: the flags that carry the server and the key, and the
\* last one (the flags between them are fixed words as well).
_build_common_flags(server_url, api_key) ==
    <<<<"-", "s">>, server_url, <<"-", "k">>, api_key, <<"-", "-", "n", "o", "-", "u", "i">>>>

\* get_google_photos_command / get_folder_command
get_command(kind, server_url, api_key) ==
    <<<<"i", "m", "m", "i", "c", "h", "-", "g", "o">>, <<"u", "p", "l", "o", "a", "d">>, IF kind = "zip" THEN <<"f", "r", "o", "m", "-", "g", "o", "o", "g", "l", "e", "-", "p", "h", "o", "t", "o", "s">> ELSE <<"f", "r", "o", "m", "-", "f", "o", "l", "d", "e", "r">>>>
        \o _build_common_flags(server_url, api_key)
        \o <<<<"-", "-", "s", "e", "s", "s", "i", "o", "n", "-", "t", "a", "g">>>>

\* _mask_api_key
_mask_api_key(cmd, api_key) == replace(join(cmd), api_key, MASK)

contains(s, t) ==
    \E i \in 1..(Len(s) - Len(t) + 1) : SubSeq(s, i, i + Len(t) - 1) = t

InitMask ==
    /\ IdleJob
    /\ display \in [stored : {"none"}, api_key : ApiKeys, other_key : ApiKeys,
                    server_url : ServerUrls, command : {<<>>}, other_command : {<<>>}]
    /\ viewer = NoViewer /\ cb = NoCallback /\ jobs = NoJobs /\ reader = NoReader /\ jobrec = NoRec /\ threads = NoThreads

\* upload_google_photos / upload_folder up to metadata.save(): the command is
\* built, masked and stored in the record. other_command is what the same
\* call stores when the runner holds other_key.
StoreCommand(kind) ==
    /\ display.stored = "none"
    /\ display' = [display EXCEPT
          !.stored = kind,
          !.command = _mask_api_key(get_command(kind, display.server_url, display.api_key),
                                    display.api_key),
          !.other_command = _mask_api_key(get_command(kind, display.server_url, display.other_key),
                                          display.other_key)]
    /\ UNCHANGED <<jobVars, viewer, cb, jobs, reader, jobrec, threads>>

UploadGooglePhotosCommand == StoreCommand("zip")

UploadFolderCommand == StoreCommand("folder")

NextMask == UploadGooglePhotosCommand \/ UploadFolderCommand

SpecMask == InitMask /\ [][NextMask]_vars

\* ---------------------------------------------- reading a growing log file
\* Largest number of lines the tool appends in the attempt.
MaxAppended == 3

\* What the text of a line is: a JSON object that parse_log_entry turns into
\* an event, a JSON object it has no event for, JSON that is no object, or
\* text that is no JSON.
LineKinds == {"event", "none", "scalar", "invalid"}

\* The file is the sequence of the pieces the tool has written: a whole line
\* with its newline, or the head of a line (no newline yet) followed later by
\* its tail (with the newline).
linesBegun == IF reader.file = <<>> THEN 0 ELSE reader.file[Len(reader.file)].line

midLine == reader.file # <<>> /\ reader.file[Len(reader.file)].part = "head"

InitReader ==
    /\ IdleJob
    /\ reader = [pos |-> 0, file |-> <<>>, updates |-> <<>>, callbacks |-> <<>>,
                 errors |-> <<>>, alive |-> TRUE]
    /\ viewer = NoViewer /\ cb = NoCallback /\ jobs = NoJobs /\ display = NoDisplay /\ jobrec = NoRec /\ threads = NoThreads

\* The tool writes a line in one piece.
AppendLine ==
    /\ reader.pos >= 0 /\ ~midLine /\ linesBegun < MaxAppended
    /\ \E kind \in LineKinds :
        reader' = [reader EXCEPT !.file = Append(@,
            [line |-> linesBegun + 1, part |-> "whole", kind |-> kind])]
    /\ UNCHANGED <<jobVars, viewer, cb, jobs, display, jobrec, threads>>

\* The tool has written the beginning of a line.
AppendHead ==
    /\ reader.pos >= 0 /\ ~midLine /\ linesBegun < MaxAppended
    /\ \E kind \in LineKinds :
        reader' = [reader EXCEPT !.file = Append(@,
            [line |-> linesBegun + 1, part |-> "head", kind |-> kind])]
    /\ UNCHANGED <<jobVars, viewer, cb, jobs, display, jobrec, threads>>

\* The tool writes the rest of the line and its newline.
AppendRest ==
    /\ reader.pos >= 0 /\ midLine
    /\ reader' = [reader EXCEPT !.file = Append(@,
          [line |-> linesBegun, part |-> "tail", kind |-> reader.file[Len(reader.file)].kind])]
    /\ UNCHANGED <<jobVars, viewer, cb, jobs, display, jobrec, threads>>

\* f.readline() at position pos: the text up to and with the next newline,
\* or, when there is none, all the text there is. The result is the number
\* of pieces read, and whether they make a whole line.
readline(file, pos) ==
    IF file[pos + 1].part = "whole" THEN [pieces |-> 1, whole |-> TRUE]
    ELSE IF file[pos + 1].part = "head" /\ pos + 2 <= Len(file)
         THEN [pieces |-> 2, whole |-> TRUE]
    ELSE [pieces |-> 1, whole |-> FALSE]

\* For comparison: a decoder that takes any text.
json_loads_any(file, pos) == TRUE

\* json.loads(line): the text of a whole line of JSON decodes; a part of a
\* line, or text that is no JSON, raises JSONDecodeError.
json_loads_ok(file, pos) ==
    readline(file, pos).whole /\ file[pos + 1].kind # "invalid"

\* For comparison: a loop that the exception of a callback ends.
ends_on_callback_error(raises) == ~raises

\* try: result_callback(result) / except Exception: the worker prints
\* 'Callback error' and is at the head of its loop again.
survives_callback(raises) == TRUE

\* One turn of the loop of _tail_log_file with something to read: the line
\* is decoded, accumulated and passed to the callback, which returns or
\* raises; on JSONDecodeError the loop goes on with what follows.
TailReadline ==
    /\ reader.pos >= 0 /\ reader.pos < Len(reader.file)
    /\ reader.alive
    /\ LET r == readline(reader.file, reader.pos)
           piece == reader.file[reader.pos + 1]
           hit == json_loads_ok(reader.file, reader.pos) /\ piece.kind = "event"
       IN \E raises \in IF hit THEN BOOLEAN ELSE {FALSE} :
            reader' = [reader EXCEPT
              !.pos = @ + r.pieces,
              !.updates = IF hit THEN Append(@, piece.line) ELSE @,
              !.callbacks = IF hit THEN Append(@, piece.line) ELSE @,
              !.errors = IF raises THEN Append(@, piece.line) ELSE @,
              !.alive = survives_callback(raises)]
    /\ UNCHANGED <<jobVars, viewer, cb, jobs, display, jobrec, threads>>

NextReader == AppendLine \/ AppendHead \/ AppendRest \/ TailReadline

SpecReader == InitReader /\ [][NextReader]_vars

\* ------------------------------------------- the contents of a job record
\* Largest number of file outcomes the callback receives.
MaxReports == 2

\* The relative paths the archive parts or the folder can hold.
RecordPaths ==
    {"Takeout/Google Photos/a.jpg", "Takeout/Google Photos/b.jpg", "Takeout/Drive/c.pdf"}

\* list(files.values()): the entries in the order of the dict, one per key.
RECURSIVE values(_)
values(keys) ==
    IF keys = {} THEN <<>>
    ELSE LET k == CHOOSE x \in keys : TRUE IN <<k>> \o values(keys \ {k})

\* _init_zip_files: every member of every part is stored under its path and
\* counted; self.files is an empty list and is the 'files' value.
RECURSIVE members_counted(_)
members_counted(parts) ==
    IF parts = <<>> THEN 0 ELSE Cardinality(Head(parts)) + members_counted(Tail(parts))

_init_zip_files(parts) ==
    [kind |-> "zip", phase |-> "running",
     keys |-> UNION {parts[i] : i \in 1..Len(parts)},
     file_count |-> members_counted(parts),
     has_files |-> TRUE, files |-> <<>>, reports |-> 0]

\* _init_from_folder: the manifest of the folder, its length as file_count;
\* neither the attribute files nor the key 'files' is set.
_init_from_folder(paths) ==
    [kind |-> "folder", phase |-> "running", keys |-> paths,
     file_count |-> Cardinality(paths),
     has_files |-> FALSE, files |-> <<>>, reports |-> 0]

\* json.dump(dict(self)): what the record file holds after a save.
written_record(r) ==
    [written |-> TRUE, keys |-> r.keys, file_count |-> r.file_count, files |-> r.files]

NotWritten == [written |-> FALSE, keys |-> {}, file_count |-> 0, files |-> <<>>]

InitRecord ==
    /\ IdleJob
    /\ \E kind \in {"zip", "folder"}, parts \in [1..2 -> SUBSET RecordPaths] :
         /\ kind = "folder" => parts[2] = {}
         /\ jobrec = [mem |-> IF kind = "zip" THEN _init_zip_files(parts)
                              ELSE _init_from_folder(parts[1]),
                      saved |-> NotWritten,
                      phase |-> "running"]
    /\ viewer = NoViewer /\ cb = NoCallback /\ jobs = NoJobs /\ display = NoDisplay
    /\ reader = NoReader /\ threads = NoThreads

\* metadata.save() of the orchestrator and of the runner before the launch.
SaveRecord ==
    /\ jobrec.phase = "running"
    /\ jobrec' = [jobrec EXCEPT !.saved = written_record(jobrec.mem)]
    /\ UNCHANGED <<jobVars, viewer, cb, jobs, display, reader, threads>>

\* create_metadata_callback, a file_result event for a path of the manifest:
\* the entry is appended to metadata.files and the record saved; a record
\* without the attribute files raises at the append, before the save.
FileResultCallback ==
    /\ jobrec.phase = "running"
    /\ jobrec.mem.reports < MaxReports
    /\ \E path \in jobrec.mem.keys :
        IF jobrec.mem.has_files
        THEN LET m == [jobrec.mem EXCEPT !.files = Append(@, path), !.reports = @ + 1]
             IN jobrec' = [jobrec EXCEPT !.mem = m, !.saved = written_record(m)]
        ELSE jobrec' = [jobrec EXCEPT !.mem.reports = @ + 1]
    /\ UNCHANGED <<jobVars, viewer, cb, jobs, display, reader, threads>>

\* update_status(final_status, files=metadata.file_manifest, ...): 'files'
\* becomes the list of the manifest's entries, file_count their number.
UpdateStatusFinal ==
    /\ jobrec.phase = "running"
    /\ LET m == [jobrec.mem EXCEPT !.files = values(jobrec.mem.keys),
                                   !.file_count = Cardinality(jobrec.mem.keys)]
       IN jobrec' = [mem |-> m, saved |-> written_record(m), phase |-> "final"]
    /\ UNCHANGED <<jobVars, viewer, cb, jobs, display, reader, threads>>

NextRecord == SaveRecord \/ FileResultCallback \/ UpdateStatusFinal

SpecRecord == InitRecord /\ [][NextRecord]_vars

\* ------------------------------------- the runner and its tail workers
\* wait_count < 30: the polls a worker waits for the log file.
PollLimit == 30

\* A tail worker as threading.Thread(...).start() leaves it.
NewWorker == [loc |-> "wait", wait_count |-> 0, stop_event |-> FALSE]

\* For comparison: a finally block that does not set the stop event.
stop_event_left(worker) == worker

\* stop_event.set().
stop_event_set(worker) == [worker EXCEPT !.stop_event = TRUE]

\* while not log_file.exists() and not stop_event.is_set() and wait_count < 30.
waits_for_log(worker, exists) ==
    ~exists /\ ~worker.stop_event /\ worker.wait_count < PollLimit

\* _tail_log_file has returned: its locals are gone, how it ended is kept.
ended(worker, how) == [worker EXCEPT !.loc = how, !.wait_count = 0]

\* _tail_log_file opens the log: wait_count is not read any more.
opened(worker) == [worker EXCEPT !.loc = "read", !.wait_count = 0]

\* The worker of the current attempt.
Current == Len(threads.workers)

InitThreads ==
    /\ IdleJob
    /\ \E max_retries \in 0..MaxRetries :
        threads = [pc |-> "loop", max_retries |-> max_retries, attempt |-> 0,
                   exists |-> FALSE, returncode |-> -1, workers |-> <<>>]
    /\ viewer = NoViewer /\ cb = NoCallback /\ jobs = NoJobs /\ display = NoDisplay
    /\ reader = NoReader /\ jobrec = NoRec

\* _run_with_retry, the head of the loop: after the delay a retry removes the
\* log, then the worker of the attempt is started; or the loop is over.
RunnerLoopHead ==
    /\ threads.pc = "loop"
    /\ threads' =
        IF threads.attempt < threads.max_retries
        THEN [threads EXCEPT !.attempt = @ + 1,
                             !.exists = IF threads.attempt + 1 > 1 THEN FALSE ELSE @,
                             !.workers = Append(@, NewWorker),
                             !.pc = "run"]
        ELSE [threads EXCEPT !.pc = "returned"]
    /\ UNCHANGED <<jobVars, viewer, cb, jobs, display, reader, jobrec>>

\* subprocess.run(cmd): the child is started, or the call raises.
SubprocessRun ==
    /\ threads.pc = "run"
    /\ \E raises \in BOOLEAN :
        threads' = [threads EXCEPT !.pc = IF raises THEN "finally_exc" ELSE "child"]
    /\ UNCHANGED <<jobVars, viewer, cb, jobs, display, reader, jobrec>>

\* The child creates its log file.
ChildCreatesLog ==
    /\ threads.pc = "child" /\ ~threads.exists
    /\ threads' = [threads EXCEPT !.exists = TRUE]
    /\ UNCHANGED <<jobVars, viewer, cb, jobs, display, reader, jobrec>>

\* The child exits and subprocess.run returns its code.
ChildExits ==
    /\ threads.pc = "child"
    /\ \E code \in {0, 1} :
        threads' = [threads EXCEPT !.returncode = code, !.pc = "finally"]
    /\ UNCHANGED <<jobVars, viewer, cb, jobs, display, reader, jobrec>>

\* The finally block: after 0.2 s the stop event of the worker is set.
FinallySetsStop ==
    /\ threads.pc \in {"finally", "finally_exc"}
    /\ threads' = [threads EXCEPT
                     !.workers[Current] = stop_event_set(@),
                     !.pc = IF threads.pc = "finally" THEN "join" ELSE "join_exc"]
    /\ UNCHANGED <<jobVars, viewer, cb, jobs, display, reader, jobrec>>

\* tail_thread.join(timeout=2.0) returns: the worker has ended, or it is
\* still in the callback of a line after 2 s (a worker that polls every
\* 0.1 s or 0.05 s sees the stop event before). The runner returns on code
\* 0 and loops otherwise, or the exception of subprocess.run leaves it.
JoinReturns ==
    /\ threads.pc \in {"join", "join_exc"}
    /\ threads.workers[Current].loc \in {"no log", "stopped", "callback"}
    /\ threads' = [threads EXCEPT
                     !.pc = IF threads.pc = "join_exc" THEN "raised"
                            ELSE IF threads.returncode = 0 THEN "returned"
                            ELSE "loop"]
    /\ UNCHANGED <<jobVars, viewer, cb, jobs, display, reader, jobrec>>

\* _tail_log_file, one poll for the log file: sleep(0.1), wait_count += 1.
WorkerPolls(i) ==
    /\ threads.workers[i].loc = "wait"
    /\ waits_for_log(threads.workers[i], threads.exists)
    /\ threads' = [threads EXCEPT !.workers[i].wait_count = @ + 1]
    /\ UNCHANGED <<jobVars, viewer, cb, jobs, display, reader, jobrec>>

\* _tail_log_file past the wait loop: it returns without a log file and
\* opens the file otherwise.
WorkerLeavesWait(i) ==
    /\ threads.workers[i].loc = "wait"
    /\ ~waits_for_log(threads.workers[i], threads.exists)
    /\ threads' = [threads EXCEPT
                     !.workers[i] = IF threads.exists THEN opened(@)
                                    ELSE ended(@, "no log")]
    /\ UNCHANGED <<jobVars, viewer, cb, jobs, display, reader, jobrec>>

\* _tail_log_file, the head of the reading loop with the stop event set:
\* the loop and the worker end.
WorkerSeesStop(i) ==
    /\ threads.workers[i].loc = "read"
    /\ threads.workers[i].stop_event
    /\ threads' = [threads EXCEPT !.workers[i] = ended(@, "stopped")]
    /\ UNCHANGED <<jobVars, viewer, cb, jobs, display, reader, jobrec>>

\* _tail_log_file, a line was read with the stop event not set: it is
\* parsed, accumulated and handed to the callback.
WorkerTakesLine(i) ==
    /\ threads.workers[i].loc = "read"
    /\ ~threads.workers[i].stop_event
    /\ threads' = [threads EXCEPT !.workers[i].loc = "callback"]
    /\ UNCHANGED <<jobVars, viewer, cb, jobs, display, reader, jobrec>>

\* The callback returns or raises; the worker is at the head of its loop.
WorkerCallbackReturns(i) ==
    /\ threads.workers[i].loc = "callback"
    /\ threads' = [threads EXCEPT !.workers[i].loc = "read"]
    /\ UNCHANGED <<jobVars, viewer, cb, jobs, display, reader, jobrec>>

WorkerStep(i) ==
    \/ WorkerPolls(i) \/ WorkerLeavesWait(i) \/ WorkerSeesStop(i)
    \/ WorkerCallbackReturns(i)

RunnerStep == RunnerLoopHead \/ SubprocessRun \/ FinallySetsStop \/ JoinReturns

NextThreads ==
    \/ RunnerLoopHead
    \/ SubprocessRun
    \/ ChildCreatesLog
    \/ ChildExits
    \/ FinallySetsStop
    \/ JoinReturns
    \/ \E i \in 1..Len(threads.workers) : WorkerPolls(i)
    \/ \E i \in 1..Len(threads.workers) : WorkerLeavesWait(i)
    \/ \E i \in 1..Len(threads.workers) : WorkerSeesStop(i)
    \/ \E i \in 1..Len(threads.workers) : WorkerTakesLine(i)
    \/ \E i \in 1..Len(threads.workers) : WorkerCallbackReturns(i)

SpecThreads == InitThreads /\ [][NextThreads]_vars

\* The runner and every worker thread keep running, and every child exits.
SpecThreadsLive ==
    /\ SpecThreads
    /\ WF_vars(RunnerStep)
    /\ WF_vars(ChildExits)
    /\ \A i \in 1..MaxRetries : WF_vars(i <= Len(threads.workers) /\ WorkerStep(i))

\* ------------------------------------------------------------ properties
Prefix(seq, n) == SubSeq(seq, 1, IF n < Len(seq) THEN n ELSE Len(seq))

LastErrors == last_results.summary["error"]

\* _run_with_retry has returned to the orchestrator.
RunnerReturned ==
    \/ pc \in {"has_errors", "is_success", "apply", "reconcile", "finalize", "delete"}
    \/ pc = "done" /\ (final_status # "none" \/ (ret = "raised" /\ ~flags.launch_failed))

\* The lines of the current (or last) attempt the worker has processed.
ReadLines == Prefix(tool_lines, tail.pos)

ErrorLines(lines) == {i \in 1..Len(lines) : status_of_msg(lines[i].msg) = "error"}

\* C1: when process_google_photos_zips has returned, the archives are deleted
\* if and only if deletion was requested and the final status is completed,
\* and with an error counter > 0 in the returned summary every archive is
\* left intact.
C1_DeletionGating ==
    pc = "done" /\ cfg.kind = "zip" /\ ret \in {"true", "false"} =>
        /\ deleted = ZipFiles <=> (cfg.delete_after_import /\ final_status = "completed")
        /\ LastErrors > 0 => deleted = {}

\* C2: no archive is deleted in a run in which the launch failed, the last
\* attempt exited non-zero or logged an error, a file ended extract_failed, or
\* the final record could not be persisted.
C2_ErrorPreservesInput ==
    (\/ flags.launch_failed
     \/ (history # <<>> /\ history[Len(history)].exit_code # 0)
     \/ (history # <<>> /\ ErrorLines(tool_lines) # {})
     \/ counts.failed > 0
     \/ flags.persist_failed) => deleted = {}

\* C3: the tool is launched only after a record in status running was written,
\* and never when creating the record raised.
C3_RunningBeforeLaunch ==
    /\ launches > 0 => persisted # <<>> /\ persisted[1] = "running"
    /\ flags.create_raised => launches = 0 /\ persisted = <<>>

C3_Witness == launches > 0 /\ pc = "tool" /\ cfg.kind = "folder"

\* C4: the written status goes from running to one terminal status of
\* completed, completed_with_errors, failed, errored and then stays; timeout
\* is never written.
C4_StatusStateMachine ==
    \/ persisted = <<>>
    \/ persisted = <<"running">>
    \/ \E t \in TerminalStatuses : persisted = <<"running", t>>

\* C5: when the call returns and the record was persisted, the persisted
\* status is terminal and update_status was called exactly once.
C5_FinalizedOnce ==
    pc = "done" /\ ret \in {"true", "false"} /\ persisted # <<>> =>
        /\ persisted[Len(persisted)] \in TerminalStatuses
        /\ update_status_calls = 1

\* C6: after an exception raised once the record was persisted, the record
\* is finalized as errored with error_details set, and the call returns.
C6_ExceptionsFinalizeErrored ==
    pc = "done" /\ flags.exception =>
        /\ ret # "raised"
        /\ status = "errored" /\ error_details
        /\ update_status_calls = 1

C8_RetryPolicy ==
    /\ launches <= cfg.max_retries
    /\ launches <= attempt
    /\ attempt >= 1 => delays = attempt - 1
    /\ \A i \in 1..Len(history) :
          history[i].exit_code = 0 => i = Len(history) /\ launches = i /\ RunnerReturned
    /\ RunnerReturned =>
          \/ history # <<>> /\ history[Len(history)].exit_code = 0
          \/ Len(history) = cfg.max_retries /\ launches = cfg.max_retries

C8_Witness ==
    RunnerReturned /\ Len(history) = 2 /\ history[1].exit_code = 1
        /\ history[1].errors = 0 /\ history[1].written = 0 /\ delays = 1

\* C9: the accumulator of an attempt counts the lines of that attempt only,
\* the runner returns the exit code and the accumulator of the last attempt,
\* and with exit code 0 and no error line read in the last attempt the final
\* status is completed, whatever earlier attempts reported.
C9_LastAttemptOnly ==
    LET counted == accumulate_all(create_empty_results, ReadLines) IN
    /\ results_accumulator = counted
    /\ RunnerReturned /\ history # <<>> =>
          /\ last_exit_code = history[Len(history)].exit_code
          /\ last_results = counted
    /\ final_status # "none" /\ history # <<>> /\ history[Len(history)].exit_code = 0
          /\ ErrorLines(ReadLines) = {} =>
          LastErrors = 0 /\ final_status = "completed"

C9_Witness ==
    /\ final_status = "completed" /\ Len(history) = 2
    /\ history[1].exit_code = 1 /\ history[1].errors = 1
    /\ last_results.files[filename(FileA)] = "uploaded"

\* C10: the final status is completed exactly when the last exit code is 0
\* and the error counter is 0, it is one of completed, completed_with_errors,
\* failed, and the call returns success exactly when it is completed.
C10_StatusAndSuccess ==
    pc = "done" /\ ret \in {"true", "false"} =>
        /\ ret = "true" <=> final_status = "completed"
        /\ final_status # "none" =>
              /\ final_status \in {"completed", "completed_with_errors", "failed"}
              /\ final_status = "completed" <=> (last_exit_code = 0 /\ LastErrors = 0)

\* The uploaded counter of the summary the runner returned.
LastUploaded == last_results.summary["uploaded"]

\* The error counter of the last attempt when the runner took its summary.
ErrorsAtReturn == IF history = <<>> THEN 0 ELSE history[Len(history)].errors

PendingEntries == {f \in DOMAIN manifest : manifest[f].disposition = "pending"}

\* C12: once the job is finalized no manifest entry is left 'pending': every
\* file of the unit has exactly one terminal disposition.
C12_NoPendingAtFinalization ==
    final_status # "none" => PendingEntries = {}

\* The uploaded count of the accumulator of the running attempt.
Uploaded == results_accumulator.summary["uploaded"]

\* C13: the uploaded count the runner reports is counted per attempt: within
\* an attempt it never decreases, and a new attempt starts again from zero.
C13_UploadedPerAttempt ==
    [][/\ attempt' = attempt => Uploaded' >= Uploaded
       /\ attempt' # attempt => Uploaded' = 0]_vars

\* Attempt 1 uploaded a.jpg and exited non-zero; attempt 2 found it on the
\* server and reports no upload.
C13_Witness ==
    /\ Len(history) = 2
    /\ history[1].files[filename(FileA)] = "uploaded" /\ history[1].uploaded = 1
    /\ history[2].files[filename(FileA)] = "server_duplicate" /\ history[2].uploaded = 0
    /\ final_status = "completed" /\ LastUploaded = 0

\* C13 as stated: the uploaded count reported after an attempt is never
\* lower than the one reported after the attempt before.
C13_Original ==
    \A i \in 1..(Len(history) - 1) : history[i + 1].uploaded >= history[i].uploaded

\* C14: within a run no manifest entry goes from a terminal disposition back
\* to 'pending', whatever event, attempt or reconciliation step comes later.
C14_NeverBackToPending ==
    [][\A f \in DOMAIN manifest :
          manifest[f].disposition # "pending" => manifest'[f].disposition # "pending"]_vars

\* A callback ran on the entry of a.jpg after reconciliation had marked it
\* imported: the status changed, the disposition did not.
C14_Witness ==
    /\ flags.reconciled /\ Len(history) = 2
    /\ FileA \in DOMAIN manifest
    /\ manifest[FileA].disposition = "imported_to_immich"
    /\ manifest[FileA].immich_status = "error"

\* The tool reported an absorbed outcome for the file at the end of some attempt.
AbsorbedInSomeAttempt(f) ==
    \E i \in 1..Len(history) : history[i].files[filename(f)] \in Absorbed

\* C15: a file for which some attempt reported an absorbed outcome is, at
\* finalization, still recorded as absorbed with disposition imported, and
\* has not been extracted, even if the last attempt's log does not name it.
C15_ManifestRetainsAbsorbed ==
    final_status # "none" =>
        \A f \in DOMAIN manifest :
            AbsorbedInSomeAttempt(f) =>
                /\ manifest[f].immich_status \in Absorbed
                /\ manifest[f].disposition = "imported_to_immich"
                /\ f \notin flags.verified

\* The manifest entries with one of the given dispositions.
WithDisposition(ds) == {f \in DOMAIN manifest : manifest[f].disposition \in ds}

\* C16: a file is 'extracted' or 'copied_for_review' only if its copy exists
\* with exactly the size of the source; a size mismatch or an exception gives
\* 'extract_failed' or 'copy_failed' and goes to the failed count, never to
\* the extracted count.
C16_ByteExactExtraction ==
    flags.reconciled =>
        /\ WithDisposition({"extracted", "copied_for_review"}) = flags.verified
        /\ counts.failed = Cardinality(WithDisposition({"extract_failed", "copy_failed"}))
        /\ cfg.kind = "zip" => counts.extracted = Cardinality(flags.verified)

\* One member was extracted with the right size, one was not.
C16_Witness ==
    /\ flags.reconciled /\ cfg.kind = "zip" /\ cfg.unit # {}
    /\ manifest[FileA].disposition = "extract_failed"
    /\ manifest[FileB].disposition = "extracted"
    /\ counts = [extracted |-> 1, failed |-> 1]

\* The outcome the summary read by reconciliation holds for the file.
OutcomeRead(f) == flags.summary_read[filename(f)]

\* C17: a file of the unit whose outcome in the summary is uploaded,
\* upgraded, server_duplicate, local_duplicate or server_better gets
\* disposition imported from reconciliation and is neither copied nor extracted.
C17_AbsorbedIsImported ==
    flags.reconciled =>
        \A f \in DOMAIN manifest :
            OutcomeRead(f) \in Absorbed =>
                /\ manifest[f].disposition = "imported_to_immich"
                /\ f \notin flags.verified

\* A metadata sidecar of the recognized source category.
is_sidecar(f) == is_json(f) /\ is_google_photos_path(f)

\* C18: in archive reconciliation a file that was not absorbed is skipped
\* without extraction only if it is a sidecar under Google Photos; every
\* other file that was not absorbed is extracted and ends as 'extracted' or
\* 'extract_failed'.
C18_OnlySidecarsSkipped ==
    flags.reconciled /\ cfg.kind = "zip" =>
        \A f \in DOMAIN manifest :
            OutcomeRead(f) \notin Absorbed /\ ~is_sidecar(f) =>
                manifest[f].disposition \in {"extracted", "extract_failed"}

\* The files that reconciliation failed to extract or to copy.
FailedEntries == WithDisposition({"extract_failed", "copy_failed"})

\* The record on disk is the one update_status wrote with the final status
\* and the counts of the reconciliation.
FinalRecordOnDisk ==
    persisted # <<>> /\ persisted[Len(persisted)] = final_status

C20_AllLinesProcessed ==
    \A i \in 1..Len(history) : history[i].read = history[i].written

\* The log of the job was modified in the last 120 seconds.
LogModifiedRecently == viewer.log.exists /\ viewer.log.age < 120

\* C22: the viewer shows 'timeout' only for a record whose status is
\* 'running', whose update_time is more than 120 seconds old and whose log
\* has not been modified in the last 120 seconds; a terminal status is shown
\* as it is.
C22_TimeoutOnlyWhenStalled ==
    viewer.shown \notin {"unused", "none"} =>
        /\ viewer.shown = "timeout" =>
              /\ viewer.record.status = "running"
              /\ viewer.record.age > 120
              /\ ~LogModifiedRecently
        /\ viewer.shown # "timeout" => viewer.shown = viewer.record.status

\* The last event added an album or a tag to the entry.
EntryGrew ==
    \E p \in KnownPaths :
        \/ cb'.manifest[p].albums # cb.manifest[p].albums
        \/ cb'.manifest[p].tags # cb.manifest[p].tags

\* C21: the callback saves the record on a file-outcome event for a path of
\* the manifest and on an album or tag event that adds an album or a tag to
\* the entry of its path, and on no other event (discovery, stack,
\* album-created, error, events for unknown paths, repeated albums and tags).
C21_PersistsOnMeaningfulUpdate ==
    [][cb'.saved = "saved" <=>
          /\ cb'.last.path \in KnownPaths
          /\ \/ cb'.last.type = "file_result"
             \/ cb'.last.type \in {"album", "tag"} /\ EntryGrew]_vars

\* The pairs of distinct jobs created so far.
JobPairs == {p \in (1..Len(jobs.created)) \X (1..Len(jobs.created)) : p[1] < p[2]}

\* C24: two distinct jobs never use the same extraction target directory.
C24_ExtractDirPerJob ==
    \A p \in JobPairs :
        jobs.created[p[1]].extract # "" =>
            jobs.created[p[1]].extract # jobs.created[p[2]].extract

\* C25: two distinct jobs never get the same record file path nor the same
\* log path.
C25_JobIdsUnique ==
    \A p \in JobPairs :
        /\ jobs.created[p[1]].record # jobs.created[p[2]].record
        /\ jobs.created[p[1]].log # jobs.created[p[2]].log

\* C26: the stored command is the same for any two API keys and never
\* contains the API key.
C26_CommandHidesKey ==
    display.stored \in {"zip", "folder"} =>
        /\ display.command = display.other_command
        /\ ~contains(display.command, display.api_key)

\* The complete lines of the file that decode to an event and that the
\* reader has gone past.
EventLinesRead ==
    {reader.file[i].line : i \in {j \in 1..Len(reader.file) :
        /\ j <= reader.pos
        /\ reader.file[j].part \in {"whole", "tail"}
        /\ reader.file[j].kind = "event"}}

Occurrences(s, x) == Cardinality({i \in 1..Len(s) : s[i] = x})

Increasing(s) == \A i, j \in 1..Len(s) : i < j => s[i] < s[j]

\* C27: every complete line that decodes to an event and has been read has
\* caused exactly one accumulator update and one callback, in file order.
C27_OneUpdatePerLine ==
    reader.pos >= 0 =>
        /\ \A k \in EventLinesRead :
              /\ Occurrences(reader.updates, k) = 1
              /\ Occurrences(reader.callbacks, k) = 1
        /\ Increasing(reader.updates)
        /\ Increasing(reader.callbacks)

\* C28: at most one tail worker of a job is alive: while the worker of an
\* attempt runs, no worker of an earlier attempt is still in a line.
C28_OneTailWorker ==
    tail.alive => late.phase = "none"

\* C29: once _run_with_retry has returned, no tail worker is left that will
\* still change the accumulator or the manifest or save the record.
C29_SingleWriterAfterReturn ==
    RunnerReturned => late.phase = "none"

\* The lines of the attempt the worker has processed that report status s.
EventsWithStatus(s) ==
    {i \in 1..Len(tool_lines) : i <= tail.pos /\ status_of_msg(tool_lines[i].msg) = s}

\* The names whose last reported status in the attempt is s.
NamesWithStatus(s) == {n \in Filenames : results_accumulator.files[n] = s}

\* C30 (as the code has it): each status counter of the attempt's summary is
\* the number of file outcomes of that status processed in the attempt, one
\* per reported line; the per-name map keeps only the last status of a name,
\* so a counter is never below the number of names with that status.
C30_CountersCountEvents ==
    \A s \in FileStatuses :
        /\ results_accumulator.summary[s] = Cardinality(EventsWithStatus(s))
        /\ Cardinality(NamesWithStatus(s)) <= results_accumulator.summary[s]

\* A name reported twice in the attempt, both lines processed.
C30_Witness ==
    /\ tail.pos = 2 /\ Len(tool_lines) = 2
    /\ filename(tool_lines[1].file) = filename(tool_lines[2].file)
    /\ results_accumulator.summary["uploaded"] = 2
    /\ Cardinality(NamesWithStatus("uploaded")) = 1

\* C30 as stated: each counter is the number of names with that status.
C30_Original ==
    \A s \in FileStatuses :
        results_accumulator.summary[s] = Cardinality(NamesWithStatus(s))

\* The text the worker takes in the step is no JSON (a part of a line
\* included), or decodes to something parse_log_entry gives no event for.
UninterestingRead ==
    \/ ~readline(reader.file, reader.pos).whole
    \/ reader.file[reader.pos + 1].kind \in {"none", "scalar", "invalid"}

\* C31: a line that is no valid JSON, or that gives no event, changes neither
\* the accumulator nor the manifest and calls no callback; the worker takes
\* the text after it, and a following whole event line is processed.
C31_UninterestingLinesIgnored ==
    [][reader.pos >= 0 /\ reader'.pos # reader.pos =>
          IF UninterestingRead
          THEN /\ reader'.updates = reader.updates
               /\ reader'.callbacks = reader.callbacks
               /\ reader'.pos > reader.pos
          ELSE /\ reader'.updates = Append(reader.updates, reader.file[reader.pos + 1].line)
               /\ reader'.callbacks = Append(reader.callbacks, reader.file[reader.pos + 1].line)]_vars

\* An event line is processed after a line of no JSON and a line without an
\* event were passed.
C31_Witness ==
    /\ reader.pos = 3 /\ Len(reader.file) = 3
    /\ reader.file[1].kind = "invalid" /\ reader.file[1].part = "whole"
    /\ reader.file[2].kind = "none" /\ reader.file[2].part = "whole"
    /\ reader.updates = <<3>> /\ reader.callbacks = <<3>>

\* The tool has logged an absorbed outcome for the path of the file.
ReportedAbsorbed(f) ==
    \E i \in 1..Len(tool_lines) :
        tool_lines[i].file = f /\ status_of_msg(tool_lines[i].msg) \in Absorbed

\* C32: a file has disposition imported only if the tool reported an
\* absorbed outcome for that very path.
C32_ImportedOnlyIfReported ==
    \A f \in DOMAIN manifest :
        manifest[f].disposition = "imported_to_immich" => ReportedAbsorbed(f)

\* C33: in every written state of the record, file_count is the number of
\* manifest entries (the keys of the manifest are distinct paths).
C33_FileCountIsManifestSize ==
    jobrec.phase # "unused" /\ jobrec.saved.written =>
        jobrec.saved.file_count = Cardinality(jobrec.saved.keys)

\* C34: in every written state of the record, the files list holds at most
\* one element per manifest path, each the entry of a manifest path.
C34_FilesListOnePerPath ==
    jobrec.phase # "unused" /\ jobrec.saved.written =>
        /\ \A i, j \in 1..Len(jobrec.saved.files) :
              i # j => jobrec.saved.files[i] # jobrec.saved.files[j]
        /\ \A i \in 1..Len(jobrec.saved.files) : jobrec.saved.files[i] \in jobrec.saved.keys

\* C35: albums and tags behave as sets: an album or tag event applied a
\* second time changes no entry and does not save the record, and two album
\* or tag events applied in either order give the same members, only the
\* order of the lists may differ.
C35_AlbumsAndTagsAreSets ==
    /\ [][cb.saved \in {"saved", "not saved"} /\ cb'.last = cb.last
            /\ cb.last.type \in {"album", "tag"} =>
                cb'.manifest = cb.manifest /\ cb'.saved = "not saved"]_vars
    /\ [](cb.saved # "unused" =>
            \A e1, e2 \in AssociationEvents :
                AsSets(on_event(on_event(cb.manifest, e1), e2))
                    = AsSets(on_event(on_event(cb.manifest, e2), e1)))

\* The album Trip was applied again to an entry that holds Home and Trip,
\* while another entry holds the same two albums in the other order.
C35_Witness ==
    /\ cb.saved = "not saved"
    /\ cb.last = [type |-> "album", path |-> KnownPath, value |-> "Trip", status |-> "uploaded"]
    /\ cb.manifest[KnownPath].albums = <<"Home", "Trip">>
    /\ \E p \in KnownPaths : cb.manifest[p].albums = <<"Trip", "Home">>

\* C36: an event never changes the keys of the manifest; it changes no entry
\* but the one of its path, and an event whose path is no key of the manifest
\* changes nothing and does not save the record.
C36_EventsKeepManifestKeys ==
    [][cb.saved # "unused" =>
          /\ DOMAIN cb'.manifest = DOMAIN cb.manifest
          /\ \A p \in DOMAIN cb.manifest :
                p # cb'.last.path => cb'.manifest[p] = cb.manifest[p]
          /\ cb'.last.path \notin DOMAIN cb.manifest => cb'.saved = "not saved"]_vars

\* A file outcome for a path the manifest does not hold arrived after one
\* for a known path: the known entry kept its outcome, the other entry is
\* as it was created, and the record was not saved.
C36_Witness ==
    /\ cb.saved = "not saved"
    /\ cb.last.type = "file_result" /\ cb.last.path = "other.jpg"
    /\ cb.manifest[KnownPath].immich_status = "uploaded"
    /\ \E p \in KnownPaths : cb.manifest[p] = NewEntry

\* C37: process_folder returns success only if the tool was launched and its
\* last attempt ended with exit code 0 and no logged error, or the folder
\* holds no file.
C37_FolderSuccessNeedsToolSuccess ==
    cfg.kind = "folder" /\ pc = "done" /\ ret = "true" =>
        \/ launches >= 1 /\ last_exit_code = 0 /\ ErrorsAtReturn = 0
        \/ cfg.unit = {}

\* The runner has left _run_with_retry.
RunnerLeft == threads.pc \in {"returned", "raised"}

\* C38: if every child exits, _run_with_retry returns or raises and every
\* worker it started ends; when the runner has left, the stop event of every
\* started worker is set, and no worker polls for the log more than
\* PollLimit times.
C38_RunnerAndWorkersTerminate ==
    /\ <>[](RunnerLeft /\ \A i \in 1..Len(threads.workers) :
                              threads.workers[i].loc \in {"no log", "stopped"})
    /\ [](RunnerLeft => \A i \in 1..Len(threads.workers) : threads.workers[i].stop_event)
    /\ [](threads.pc # "unused" =>
            \A i \in 1..Len(threads.workers) : threads.workers[i].wait_count <= PollLimit)

\* The runner returned after two attempts; the worker of the first never saw
\* a log and ended before its stop event was set, the worker of the second
\* read the log until the stop event; both have ended.
C38_Witness ==
    /\ threads.pc = "returned"
    /\ Len(threads.workers) = 2
    /\ threads.workers[1].loc = "no log" /\ threads.workers[2].loc = "stopped"
    /\ threads.exists

====
